---- MODULE Spec2Model ----
(***************************************************************************)
(* Model of the inventory page of streamlit_app.py: the repairs table in   *)
(* repair_shop.db, the editable grid (st.data_editor, key "repair_table"), *)
(* the "Commit changes" button whose on_click handler is update_data, and  *)
(* the reorder alert.  Spec has two browser sessions on the one database   *)
(* file; SpecFaults has one session, statements that fail and edit sets    *)
(* that name a position outside the table.                                 *)
(*                                                                         *)
(* Positions are 0-based as in pandas; a snapshot df is a TLA+ sequence,   *)
(* so position i is df[i + 1].                                             *)
(***************************************************************************)
EXTENDS Integers, Sequences, FiniteSets, TLC

\* ------------------------------------------------------------------------
\* Bounds of the exploration.

\* Rows present in the repairs table when the page is first opened.
InitRows == 2
\* Changes the users make in the grids of all sessions in one behaviour.
MaxEdits == 2
\* Calls of update_data (clicks on "Commit changes") in one behaviour.
MaxCommits == 2

Sessions == {1, 2}

\* ------------------------------------------------------------------------
\* The repairs table (CREATE TABLE repairs, initialize_data).

Columns ==
    {"item_name", "price", "labor_cost", "parts_cost",
     "units_used", "units_left", "reorder_point", "description"}

TextColumns == {"item_name", "description"}

\* Python None / SQL NULL.  A column holds values of one type only, so the
\* null of a text column is a text that is neither "" nor a name, and the
\* null of a numeric column is a number that is not a count or an amount.
None(c) == IF c \in TextColumns THEN "<None>" ELSE -1

\* The sample rows initialize_data inserts into a new database (amounts in
\* whole rupees).
SampleData ==
    << [item_name |-> "Engine Oil Change", price |-> 600, labor_cost |-> 100,
        parts_cost |-> 400, units_used |-> 35, units_left |-> 10,
        reorder_point |-> 10, description |-> "Engine oil replacement"],
       [item_name |-> "Brake Pad Replacement", price |-> 1000, labor_cost |-> 200,
        parts_cost |-> 600, units_used |-> 20, units_left |-> 8,
        reorder_point |-> 10, description |-> "Brake pad replacement service"],
       [item_name |-> "Spark Plug Replacement", price |-> 200, labor_cost |-> 50,
        parts_cost |-> 100, units_used |-> 30, units_left |-> 12,
        reorder_point |-> 5, description |-> "Replacement of spark plug"],
       [item_name |-> "Tire Replacement (Front)", price |-> 1200, labor_cost |-> 100,
        parts_cost |-> 900, units_used |-> 12, units_left |-> 5,
        reorder_point |-> 5, description |-> "Replacement of front tire"],
       [item_name |-> "Tire Replacement (Rear)", price |-> 1500, labor_cost |-> 100,
        parts_cost |-> 1100, units_used |-> 10, units_left |-> 5,
        reorder_point |-> 5, description |-> "Replacement of rear tire"],
       [item_name |-> "Battery Replacement", price |-> 2500, labor_cost |-> 150,
        parts_cost |-> 2000, units_used |-> 8, units_left |-> 3,
        reorder_point |-> 3, description |-> "Replacement of battery"],
       [item_name |-> "Chain Replacement", price |-> 800, labor_cost |-> 100,
        parts_cost |-> 500, units_used |-> 15, units_left |-> 7,
        reorder_point |-> 5, description |-> "Chain replacement service"],
       [item_name |-> "Headlight Replacement", price |-> 600, labor_cost |-> 50,
        parts_cost |-> 400, units_used |-> 10, units_left |-> 5,
        reorder_point |-> 5, description |-> "Headlight replacement"] >>

\* A stored row: the id column plus the eight named columns.
StoredRow(id, vals) ==
    [c \in Columns \cup {"id"} |-> IF c = "id" THEN id ELSE vals[c]]

Ids(rows) == {r.id : r \in rows}

MaxId(rows) ==
    IF rows = {} THEN 0
    ELSE CHOOSE m \in Ids(rows) : \A n \in Ids(rows) : n <= m

Max(a, b) == IF a >= b THEN a ELSE b

\* The database holds the rows of repairs and the AUTOINCREMENT counter
\* (sqlite_sequence): the largest id ever assigned.
\* initialize_data assigns ids 1..8 to the sample rows; a database that
\* already exists when the page is opened holds what earlier runs left:
\* here the first InitRows sample rows, the others deleted.
initialize_data ==
    [rows |-> {StoredRow(k, SampleData[k]) : k \in 1..InitRows},
     seq  |-> Len(SampleData)]

\* ------------------------------------------------------------------------
\* Connections.  A connection either has no open transaction and reads the
\* committed database, or has one and reads its own uncommitted work.

connect_db == [inTxn |-> FALSE, work |-> [rows |-> {}, seq |-> 0]]

View(conn, committed) == IF conn.inTxn THEN conn.work ELSE committed

RECURSIVE SortById(_)
SortById(rows) ==
    IF rows = {} THEN << >>
    ELSE LET r == CHOOSE x \in rows : \A y \in rows : x.id <= y.id
         IN  << r >> \o SortById(rows \ {r})

\* SELECT * FROM repairs: a full scan of the table in rowid order.
load_data(conn, committed) == SortById(View(conn, committed).rows)

\* ------------------------------------------------------------------------
\* The grid's editing state, st.session_state.repair_table.
\*   edited_rows : dict position -> overrides, kept in insertion order
\*   added_rows  : list of partial rows
\*   deleted_rows: list of positions

NoChanges == [edited_rows |-> << >>, added_rows |-> << >>, deleted_rows |-> << >>]

has_uncommitted_changes(changes) ==
    \/ Len(changes.edited_rows) > 0
    \/ Len(changes.added_rows) > 0
    \/ Len(changes.deleted_rows) > 0

NumStatements(changes) ==
    Len(changes.edited_rows) + Len(changes.added_rows) + Len(changes.deleted_rows)

SeqRange(q) == {q[k] : k \in 1..Len(q)}

EditedPositions(changes) == {changes.edited_rows[k].pos : k \in 1..Len(changes.edited_rows)}

DeletedPositions(changes) == SeqRange(changes.deleted_rows)

\* Positions are row numbers of the grid, counted from 0; df.iloc[i] and
\* df.loc[i, "id"] raise for a row number the table does not have.
InBounds(df, i) == i >= 0 /\ i < Len(df)

\* ------------------------------------------------------------------------
\* update_data.

\* Variant: the row is rebuilt from the overrides alone.
Merge_onlyDelta(row, delta) ==
    [c \in DOMAIN row |-> IF c \in DOMAIN delta THEN delta[c]
                          ELSE IF c = "id" THEN row[c] ELSE None(c)]

\* row_dict = df.iloc[i].to_dict(); row_dict.update(delta)
Merge(row, delta) ==
    [c \in DOMAIN row |-> IF c \in DOMAIN delta THEN delta[c] ELSE row[c]]

\* defaultdict(lambda: None, row): a column the row lacks reads as None.
WithNone(row) ==
    [c \in Columns |-> IF c \in DOMAIN row THEN row[c] ELSE None(c)]

\* The parameter rows of the UPDATE ... WHERE id = :id statements.
UpdateOps(df, changes) ==
    [k \in 1..Len(changes.edited_rows) |->
        [kind |-> "update",
         row  |-> Merge(df[changes.edited_rows[k].pos + 1],
                        changes.edited_rows[k].delta)]]

\* The parameter rows of the INSERT statements, ids left to the database.
InsertOps(changes) ==
    [k \in 1..Len(changes.added_rows) |->
        [kind |-> "insert", row |-> WithNone(changes.added_rows[k])]]

\* Variant: the position is passed as the id.
DeleteOps_byPosition(df, changes) ==
    [k \in 1..Len(changes.deleted_rows) |->
        IF InBounds(df, changes.deleted_rows[k])
        THEN [kind |-> "delete", id |-> changes.deleted_rows[k]]
        ELSE [kind |-> "KeyError"]]

\* Variant: a deleted position that was also edited is not deleted.
DeleteOps_skipEdited(df, changes) ==
    LET rest == SelectSeq(changes.deleted_rows,
                          LAMBDA i : i \notin EditedPositions(changes))
    IN  [k \in 1..Len(rest) |->
            IF InBounds(df, rest[k])
            THEN [kind |-> "delete", id |-> df[rest[k] + 1].id]
            ELSE [kind |-> "KeyError"]]

\* Variant: a position that is not in the snapshot is passed over.
DeleteOps_ignoreMissing(df, changes) ==
    LET rest == SelectSeq(changes.deleted_rows, LAMBDA i : InBounds(df, i))
    IN  [k \in 1..Len(rest) |-> [kind |-> "delete", id |-> df[rest[k] + 1].id]]

\* The parameters of the DELETE ... WHERE id = :id statements.  They come
\* from a generator: df.loc[i, "id"] is evaluated, and may raise KeyError,
\* only when executemany reaches that entry.
DeleteOps(df, changes) ==
    [k \in 1..Len(changes.deleted_rows) |->
        IF InBounds(df, changes.deleted_rows[k])
        THEN [kind |-> "delete", id |-> df[changes.deleted_rows[k] + 1].id]
        ELSE [kind |-> "KeyError"]]

\* Variant: the delete phase comes first.
Statements_deletesFirst(df, changes) ==
    DeleteOps(df, changes) \o UpdateOps(df, changes) \o InsertOps(changes)

\* The statements of one call, in the order the call issues them.
Statements(df, changes) ==
    UpdateOps(df, changes) \o InsertOps(changes) \o DeleteOps(df, changes)

\* Variant: the id column is a plain INTEGER PRIMARY KEY, an INSERT takes
\* the id after the largest one present.
ExecOp_reuseId(db, op) ==
    CASE op.kind = "update" ->
           [db EXCEPT !.rows =
               {IF r.id = op.row.id
                THEN [c \in DOMAIN r |-> IF c = "id" THEN r.id ELSE op.row[c]]
                ELSE r : r \in db.rows}]
      [] op.kind = "insert" ->
           LET id == MaxId(db.rows) + 1
           IN  [rows |-> db.rows \cup {StoredRow(id, op.row)}, seq |-> id]
      [] op.kind = "delete" ->
           [db EXCEPT !.rows = {r \in db.rows : r.id # op.id}]

\* Variant: the update is an INSERT OR REPLACE.
ExecOp_upsert(db, op) ==
    CASE op.kind = "update" ->
           [db EXCEPT !.rows = {r \in db.rows : r.id # op.row.id} \cup {op.row}]
      [] op.kind = "insert" ->
           LET id == Max(db.seq, MaxId(db.rows)) + 1
           IN  [rows |-> db.rows \cup {StoredRow(id, op.row)}, seq |-> id]
      [] op.kind = "delete" ->
           [db EXCEPT !.rows = {r \in db.rows : r.id # op.id}]

\* One statement applied to the connection's working copy.  An UPDATE or a
\* DELETE whose id matches no row changes nothing; an INSERT takes the id
\* after the largest ever assigned (AUTOINCREMENT).
ExecOp(db, op) ==
    CASE op.kind = "update" ->
           [db EXCEPT !.rows =
               {IF r.id = op.row.id
                THEN [c \in DOMAIN r |-> IF c = "id" THEN r.id ELSE op.row[c]]
                ELSE r : r \in db.rows}]
      [] op.kind = "insert" ->
           LET id == Max(db.seq, MaxId(db.rows)) + 1
           IN  [rows |-> db.rows \cup {StoredRow(id, op.row)}, seq |-> id]
      [] op.kind = "delete" ->
           [db EXCEPT !.rows = {r \in db.rows : r.id # op.id}]

\* Statements k, k+1, ... run against db until one fails: statement number
\* fault fails in the database, a KeyError entry fails before its DELETE.
RECURSIVE Execute(_, _, _, _)
Execute(db, ops, k, fault) ==
    IF k > Len(ops) THEN [ok |-> TRUE, db |-> db, issued |-> k - 1]
    ELSE IF ops[k].kind = "KeyError" \/ k = fault
         THEN [ok |-> FALSE, db |-> db,
               issued |-> IF ops[k].kind = "KeyError" THEN k - 1 ELSE k]
         ELSE Execute(ExecOp(db, ops[k]), ops, k + 1, fault)

\* conn.commit(): the connection's work becomes the committed database.
Committed(conn, committed, work) ==
    [conn |-> [conn EXCEPT !.inTxn = FALSE], committed |-> work]

\* Variant: the work done so far is committed when the exception passes.
Raised_commits(conn, committed, work) ==
    [conn |-> [conn EXCEPT !.inTxn = FALSE], committed |-> work]

\* An exception leaves update_data before conn.commit(); nothing rolls the
\* transaction back, the work stays in the connection, uncommitted.
Raised(conn, committed, work) ==
    [conn |-> [inTxn |-> TRUE, work |-> work], committed |-> committed]

\* Variant: a call that returns empties the changes dict.
update_data_clears(conn, df, changes, committed, fault) ==
    IF \E i \in EditedPositions(changes) : ~InBounds(df, i)
    THEN [ok |-> FALSE, conn |-> conn, committed |-> committed,
          issued |-> << >>, changes |-> changes]
    ELSE LET ops == Statements(df, changes)
             run == Execute(View(conn, committed), ops, 1, fault)
             end == IF run.ok THEN Committed(conn, committed, run.db)
                    ELSE Raised(conn, committed, run.db)
         IN  [ok |-> run.ok, conn |-> end.conn, committed |-> end.committed,
              issued |-> SubSeq(ops, 1, run.issued),
              changes |-> IF run.ok THEN NoChanges ELSE changes]

\* update_data(conn, df, changes) with the committed database it runs
\* against.  The result gives the connection and the committed database
\* afterwards, whether the call returned (ok) or raised, the statements it
\* issued, and the changes dict, which the call only reads.  The
\* edited_rows loop reads every df.iloc[i] before the first statement, so
\* an IndexError there leaves the connection untouched.
update_data(conn, df, changes, committed, fault) ==
    IF \E i \in EditedPositions(changes) : ~InBounds(df, i)
    THEN [ok |-> FALSE, conn |-> conn, committed |-> committed,
          issued |-> << >>, changes |-> changes]
    ELSE LET ops == Statements(df, changes)
             run == Execute(View(conn, committed), ops, 1, fault)
             end == IF run.ok THEN Committed(conn, committed, run.db)
                    ELSE Raised(conn, committed, run.db)
         IN  [ok |-> run.ok, conn |-> end.conn, committed |-> end.committed,
              issued |-> SubSeq(ops, 1, run.issued), changes |-> changes]

\* ------------------------------------------------------------------------
\* The reorder alert.

\* Variant: the comparison is <=.
need_to_reorder_orEqual(df) ==
    LET low(r) == /\ r.units_left # None("units_left")
                  /\ r.reorder_point # None("reorder_point")
                  /\ r.units_left <= r.reorder_point
        names == [k \in 1..Len(df) |-> df[k].item_name]
        RECURSIVE pick(_)
        pick(k) == IF k > Len(df) THEN << >>
                   ELSE (IF low(df[k]) THEN << names[k] >> ELSE << >>) \o pick(k + 1)
    IN  pick(1)

\* df[df["units_left"] < df["reorder_point"]].loc[:, "item_name"]
\* (a comparison with a missing value is False).
need_to_reorder(df) ==
    LET low(r) == /\ r.units_left # None("units_left")
                  /\ r.reorder_point # None("reorder_point")
                  /\ r.units_left < r.reorder_point
        names == [k \in 1..Len(df) |-> df[k].item_name]
        RECURSIVE pick(_)
        pick(k) == IF k > Len(df) THEN << >>
                   ELSE (IF low(df[k]) THEN << names[k] >> ELSE << >>) \o pick(k + 1)
    IN  pick(1)

\* ------------------------------------------------------------------------
\* State.

VARIABLES
    store,     \* the committed contents of repair_shop.db
    conn,      \* conn[s]: the connection of session s's last script run
    df,        \* df[s]: the table loaded by session s's last script run
    changes,   \* changes[s]: st.session_state.repair_table of session s
    alert,     \* alert[s]: the names listed by st.error, << >> when not shown
    pc,        \* pc[s]: "rerun" when a script run is due, "idle" when rendered
    last,      \* the latest update_data call: its arguments and its outcome
    usedIds,   \* every id a committed row has ever had
    commits,   \* number of update_data calls so far
    edits      \* number of changes made in the grids so far

vars == << store, conn, df, changes, alert, pc, last, usedIds, commits, edits >>

NoCall ==
    [session |-> 0, ok |-> FALSE, pre |-> initialize_data, df |-> << >>,
     changes |-> NoChanges, fault |-> 0, issued |-> << >>, used |-> {}]

Init ==
    /\ store = initialize_data
    /\ conn = [s \in Sessions |-> connect_db]
    /\ df = [s \in Sessions |-> << >>]
    /\ changes = [s \in Sessions |-> NoChanges]
    /\ alert = [s \in Sessions |-> << >>]
    /\ pc = [s \in Sessions |-> "rerun"]
    /\ last = NoCall
    /\ usedIds = 1..Len(SampleData)
    /\ commits = 0
    /\ edits = 0

\* ------------------------------------------------------------------------
\* What the user can type into the grid.

EditCols == {"item_name", "units_left"}

EditVals(c) == IF c = "item_name" THEN {"New Filter"} ELSE {7, 10}

\* The row the user appends: some columns filled in, one of them with 0,
\* the others left empty.
AddedRow == [item_name |-> "New Filter", price |-> 150, units_left |-> 0]

\* ------------------------------------------------------------------------
\* Actions.

\* st.data_editor(df, key="repair_table"): the editing state lives in the
\* session under the key and nothing in the script clears it.  The widget
\* is identified by its key together with the table passed in: a run that
\* passes the table already shown keeps the pending edits, a run that
\* passes a different table gets a new widget with no edits.
data_editor(oldDf, newDf, state) ==
    IF newDf = oldDf THEN state ELSE NoChanges

\* One run of the script with the editing state the session holds: connect,
\* load, render the grid and the alert.
Run(s, state) ==
    LET c == connect_db
        d == load_data(c, store)
    IN  /\ conn' = [conn EXCEPT ![s] = c]
        /\ df' = [df EXCEPT ![s] = d]
        /\ changes' = [changes EXCEPT ![s] = data_editor(df[s], d, state)]
        /\ alert' = [alert EXCEPT ![s] = need_to_reorder(d)]
        /\ pc' = [pc EXCEPT ![s] = "idle"]
        /\ UNCHANGED << store, last, usedIds, commits >>

\* The script runs: when the page is opened, after a click on the button,
\* or because the user reloads.
Rerun(s) ==
    /\ Run(s, changes[s])
    /\ UNCHANGED edits

\* The user changes cell (i, c) of a row shown in the grid; the widget
\* records the change and the script runs again.
EditCell(s, i, c, v) ==
    /\ pc[s] = "idle"
    /\ edits < MaxEdits
    /\ commits < MaxCommits
    /\ InBounds(df[s], i)
    /\ i \notin DeletedPositions(changes[s])
    /\ LET er == changes[s].edited_rows
       IN  IF i \in EditedPositions(changes[s])
           THEN LET k == CHOOSE k \in 1..Len(er) : er[k].pos = i
                IN  /\ c \notin DOMAIN er[k].delta
                    /\ Run(s, [changes[s] EXCEPT !.edited_rows[k].delta = (c :> v) @@ @])
           ELSE Run(s, [changes[s] EXCEPT !.edited_rows =
                           Append(@, [pos |-> i, delta |-> (c :> v)])])
    /\ edits' = edits + 1

\* The user appends a row to the grid.
AddRow(s) ==
    /\ pc[s] = "idle"
    /\ edits < MaxEdits
    /\ commits < MaxCommits
    /\ Run(s, [changes[s] EXCEPT !.added_rows = Append(@, AddedRow)])
    /\ edits' = edits + 1

\* The user deletes a row shown in the grid.
DeleteRow(s, i) ==
    /\ pc[s] = "idle"
    /\ edits < MaxEdits
    /\ commits < MaxCommits
    /\ InBounds(df[s], i)
    /\ i \notin DeletedPositions(changes[s])
    /\ Run(s, [changes[s] EXCEPT !.deleted_rows = Append(@, i)])
    /\ edits' = edits + 1

\* A UI-state error: the editing state names a position the table shown
\* does not have.  The grid produces no such entry; the two actions put one
\* in, to call update_data with it.
MalformedEdit(s, i, c, v) ==
    /\ pc[s] = "idle"
    /\ edits < MaxEdits
    /\ commits < MaxCommits
    /\ ~InBounds(df[s], i)
    /\ i \notin EditedPositions(changes[s])
    /\ Run(s, [changes[s] EXCEPT !.edited_rows =
                  Append(@, [pos |-> i, delta |-> (c :> v)])])
    /\ edits' = edits + 1

MalformedDelete(s, i) ==
    /\ pc[s] = "idle"
    /\ edits < MaxEdits
    /\ commits < MaxCommits
    /\ ~InBounds(df[s], i)
    /\ i \notin DeletedPositions(changes[s])
    /\ Run(s, [changes[s] EXCEPT !.deleted_rows = Append(@, i)])
    /\ edits' = edits + 1

\* The user clicks "Commit changes": the button is enabled only when the
\* last run found uncommitted changes; on_click calls
\* update_data(conn, df, st.session_state.repair_table) with that run's
\* connection and table, then the script is due to run again.
Commit(s, fault) ==
    /\ pc[s] = "idle"
    /\ has_uncommitted_changes(changes[s])
    /\ commits < MaxCommits
    /\ fault <= NumStatements(changes[s])
    /\ LET r == update_data(conn[s], df[s], changes[s], store, fault)
       IN  /\ store' = r.committed
           /\ conn' = [conn EXCEPT ![s] = r.conn]
           /\ changes' = [changes EXCEPT ![s] = r.changes]
           /\ last' = [session |-> s, ok |-> r.ok, pre |-> store, df |-> df[s],
                       changes |-> changes[s], fault |-> fault,
                       issued |-> r.issued, used |-> usedIds]
           /\ usedIds' = usedIds \cup Ids(r.committed.rows)
    /\ commits' = commits + 1
    /\ pc' = [pc EXCEPT ![s] = "rerun"]
    /\ UNCHANGED << df, alert, edits >>

\* Two sessions on the one database file; every statement succeeds, a call
\* fails only on a position that is not in its snapshot.
Next ==
    \E s \in Sessions :
        \/ Rerun(s)
        \/ \E i \in 0..(InitRows + MaxEdits - 1), c \in EditCols :
               \E v \in EditVals(c) : EditCell(s, i, c, v)
        \/ AddRow(s)
        \/ \E i \in 0..(InitRows + MaxEdits - 1) : DeleteRow(s, i)
        \/ Commit(s, 0)

\* One session owning the database; any statement of a call may fail, and
\* the edit set may name a position that is not in the table.
NextFaults ==
    \/ Rerun(1)
    \/ \E i \in 0..(InitRows + MaxEdits - 1), c \in EditCols :
           \E v \in EditVals(c) : EditCell(1, i, c, v)
    \/ AddRow(1)
    \/ \E i \in 0..(InitRows + MaxEdits - 1) : DeleteRow(1, i)
    \/ \E i \in 0..InitRows, c \in EditCols :
           \E v \in EditVals(c) : MalformedEdit(1, i, c, v)
    \/ \E i \in 0..InitRows : MalformedDelete(1, i)
    \/ \E fault \in 0..MaxEdits : Commit(1, fault)

Spec == Init /\ [][Next]_vars

SpecFaults == Init /\ [][NextFaults]_vars

\* ------------------------------------------------------------------------
\* Vocabulary of the properties.  `last` is the latest update_data call;
\* the committed database changes only in such a call, so `store` is what
\* a load_data following that call reads.

Called == last.session # 0

\* The snapshot of the call was the table in the database when it ran.
Current == last.df = SortById(last.pre.rows)

Edited == {last.changes.edited_rows[k].pos : k \in 1..Len(last.changes.edited_rows)}

Deleted == {last.changes.deleted_rows[k] : k \in 1..Len(last.changes.deleted_rows)}

Added == last.changes.added_rows

Inside(i) == i \in 0..(Len(last.df) - 1)

OverridesAt(i) ==
    LET k == CHOOSE k \in 1..Len(last.changes.edited_rows) :
                 last.changes.edited_rows[k].pos = i
    IN  last.changes.edited_rows[k].delta

\* The snapshot row at position i with the overrides of that position.
Overridden(i) ==
    IF i \in Edited
    THEN [c \in DOMAIN last.df[i + 1] |->
             IF c \in DOMAIN OverridesAt(i) THEN OverridesAt(i)[c]
             ELSE last.df[i + 1][c]]
    ELSE last.df[i + 1]

\* The snapshot rows that are not deleted, overrides merged, in snapshot order.
Kept ==
    LET F[n \in 0..Len(last.df)] ==
            IF n = 0 THEN << >>
            ELSE F[n - 1] \o (IF (n - 1) \in Deleted THEN << >>
                               ELSE << Overridden(n - 1) >>)
    IN  F[Len(last.df)]

Supplies(row, entry) ==
    \A c \in Columns :
        row[c] = IF c \in DOMAIN entry THEN entry[c]
                 ELSE IF c \in TextColumns THEN "<None>" ELSE -1

Loaded == load_data(connect_db, store)

StoredWithId(id) == {r \in store.rows : r.id = id}

\* ------------------------------------------------------------------------
\* C1  Round trip: after a successful update_data on a snapshot that was
\* just loaded, with every position inside it, a following load_data
\* returns the snapshot rows that are not deleted, overrides merged and ids
\* unchanged, then one new row per added_rows entry in append order, the
\* whole ordered by id ascending, and nothing else.
C1_RoundTrip ==
    (Called /\ last.ok /\ Current) =>
        LET now  == Loaded
            kept == Kept
        IN  /\ Len(now) = Len(kept) + Len(Added)
            /\ SubSeq(now, 1, Len(kept)) = kept
            /\ \A k \in 1..Len(Added) : Supplies(now[Len(kept) + k], Added[k])
            /\ \A j, k \in 1..Len(now) : j < k => now[j].id < now[k].id

C1_Witness ==
    /\ Called /\ last.ok /\ Current
    /\ Len(Added) > 0
    /\ Edited \cup Deleted # {}
    /\ Len(Kept) > 0

\* C2  All or nothing: when a statement of update_data fails, nothing of
\* that call is persisted: the committed database is the one from before
\* the call, and so is the table the session's next load_data returns.
C2_AllOrNothing ==
    (Called /\ ~last.ok) =>
        /\ store = last.pre
        /\ pc[last.session] = "idle" =>
               /\ SeqRange(df[last.session]) = last.pre.rows
               /\ Len(df[last.session]) = Cardinality(last.pre.rows)

\* The second statement of a call failed, the first had been executed, and
\* the session has loaded the table again.
C2_Witness ==
    /\ Called /\ ~last.ok
    /\ last.fault = 2
    /\ Len(last.issued) = 2
    /\ pc[last.session] = "idle"

\* C3  Deletion wins: a position both in deleted_rows and in edited_rows
\* leaves no row with the snapshot id of that position after a successful
\* update_data, and the DELETE issued for it carries that snapshot id.
C3_DeletionWins ==
    (Called /\ last.ok) =>
        \A i \in Edited \cap Deleted :
            /\ StoredWithId(last.df[i + 1].id) = {}
            /\ \E k \in 1..Len(last.issued) :
                   /\ last.issued[k].kind = "delete"
                   /\ last.issued[k].id = last.df[i + 1].id

C3_Witness ==
    /\ Called /\ last.ok
    /\ Edited \cap Deleted # {}
    /\ store.rows # {}

\* C4  Update merge: after a successful update_data on a current snapshot,
\* the stored row of every edited, not deleted position has each overridden
\* column equal to the override, every other column equal to the value
\* persisted before, and its id unchanged; the row of every position that
\* is neither edited nor deleted is stored unchanged.
C4_MergePreserves ==
    (Called /\ last.ok /\ Current) =>
        \A i \in 0..(Len(last.df) - 1) :
            LET id  == last.df[i + 1].id
                old == CHOOSE r \in last.pre.rows : r.id = id
            IN  /\ (i \in Edited \ Deleted) =>
                       /\ Cardinality(StoredWithId(id)) = 1
                       /\ \A r \in StoredWithId(id) : \A c \in Columns :
                              r[c] = IF c \in DOMAIN OverridesAt(i)
                                     THEN OverridesAt(i)[c] ELSE old[c]
                /\ (i \notin Edited \cup Deleted) => StoredWithId(id) = {old}

C4_Witness ==
    /\ Called /\ last.ok /\ Current
    /\ \E i \in Edited \ Deleted : DOMAIN OverridesAt(i) # Columns
    /\ \E i \in 0..(Len(last.df) - 1) : i \notin Edited \cup Deleted

\* C5  Fresh identity: the rows a successful update_data creates, one per
\* added_rows entry, get ids no committed row has ever had, different from
\* one another and from every id deleted by the same call, and every column
\* an added entry does not supply is stored as None, not as 0 or "".
C5_FreshIdentity ==
    (Called /\ last.ok) =>
        LET new == {r \in store.rows : r.id \notin Ids(last.pre.rows)}
            gone == {last.issued[k].id :
                        k \in {k \in 1..Len(last.issued) : last.issued[k].kind = "delete"}}
        IN  /\ Cardinality(Ids(new)) = Len(Added)
            /\ Cardinality(Ids(store.rows)) = Cardinality(store.rows)
            /\ Ids(new) \cap (last.used \cup gone) = {}
            /\ \A k \in 1..Len(Added) : \E r \in new :
                   /\ Supplies(r, Added[k])
                   /\ \A c \in Columns \ DOMAIN Added[k] :
                          IF c \in TextColumns THEN r[c] # "" ELSE r[c] # 0

C5_Witness ==
    /\ Called /\ last.ok
    /\ Len(Added) > 0
    /\ Deleted # {}
    /\ \E r \in store.rows : r.id \notin last.used

Low(df_) ==
    {k \in 1..Len(df_) : /\ df_[k].units_left # -1
                         /\ df_[k].reorder_point # -1
                         /\ df_[k].units_left < df_[k].reorder_point}

Reversed(df_) == [k \in 1..Len(df_) |-> df_[Len(df_) + 1 - k]]

C8_ReorderAlert ==
    \A s \in Sessions : pc[s] = "idle" =>
        /\ SeqRange(alert[s]) = {df[s][k].item_name : k \in Low(df[s])}
        /\ Len(alert[s]) = Cardinality(Low(df[s]))
        /\ (Len(alert[s]) > 0) <=> (Low(df[s]) # {})
        /\ SeqRange(need_to_reorder(Reversed(df[s]))) = SeqRange(alert[s])

\* A table loaded after a commit with a flagged row and a row whose
\* units_left equals its reorder_point.
C8_Witness ==
    \E s \in Sessions :
        /\ pc[s] = "idle"
        /\ Len(alert[s]) > 0
        /\ \E k \in 1..Len(df[s]) :
               df[s][k].units_left = df[s][k].reorder_point /\ df[s][k].units_left # -1
        /\ commits > 0

\* C9 as stated: deletes first, updates second, inserts third, and no
\* update for a position that is also deleted.
Rank(kind) == CASE kind = "delete" -> 1 [] kind = "update" -> 2 [] kind = "insert" -> 3

C9_DeletesFirst ==
    Called =>
        /\ \A j, k \in 1..Len(last.issued) :
               j < k => Rank(last.issued[j].kind) <= Rank(last.issued[k].kind)
        /\ \A k \in 1..Len(last.issued) :
               last.issued[k].kind = "update" =>
                   \A i \in Edited \cap Deleted :
                       Inside(i) => last.issued[k].row.id # last.df[i + 1].id

\* C9 amended  The statements of one call are issued updates first, one for
\* every edited position (also for one that is deleted) in the order of
\* edited_rows, inserts second in append order, deletes third in the order
\* of deleted_rows; a call that fails has issued a prefix of them.
C9_UpdatesInsertsDeletes ==
    Called =>
        LET nu == Len(last.changes.edited_rows)
            ni == Len(Added)
            nd == Len(last.changes.deleted_rows)
        IN  /\ Len(last.issued) <= nu + ni + nd
            /\ last.ok => Len(last.issued) = nu + ni + nd
            /\ \A k \in 1..Len(last.issued) :
                   IF k <= nu
                   THEN /\ last.issued[k].kind = "update"
                        /\ last.issued[k].row.id =
                               last.df[last.changes.edited_rows[k].pos + 1].id
                   ELSE IF k <= nu + ni
                   THEN /\ last.issued[k].kind = "insert"
                        /\ Supplies(last.issued[k].row, Added[k - nu])
                   ELSE /\ last.issued[k].kind = "delete"
                        /\ last.issued[k].id =
                               last.df[last.changes.deleted_rows[k - nu - ni] + 1].id

C9_Witness ==
    /\ Called /\ last.ok
    /\ Edited \cap Deleted # {}
    /\ Len(last.issued) = 2
    /\ last.issued[1].kind = "update"
    /\ last.issued[2].kind = "delete"

\* C10  Stale snapshots: a call on a snapshot that another session's commit
\* has made stale succeeds like any other (no statement failing, every
\* position inside the snapshot); a row it edits and does not delete ends
\* as the caller's snapshot row with the caller's overrides when it is
\* still in the database, and stays absent when it has been deleted.
C10_LastCommitWins ==
    (Called /\ ~Current /\ last.fault = 0 /\ \A i \in Edited \cup Deleted : Inside(i)) =>
        /\ last.ok
        /\ \A i \in Edited \ Deleted :
               LET id == last.df[i + 1].id
               IN  IF id \in Ids(last.pre.rows)
                   THEN StoredWithId(id) = {Overridden(i)}
                   ELSE StoredWithId(id) = {}

\* The later of two commits that edited the same row: the row the earlier
\* one stored differs from the later committer's snapshot row.
C10_Witness ==
    /\ Called /\ last.ok /\ ~Current
    /\ \E i \in Edited \ Deleted :
           /\ \E r \in last.pre.rows : r.id = last.df[i + 1].id /\ r # last.df[i + 1]
           /\ StoredWithId(last.df[i + 1].id) = {Overridden(i)}

\* The later commit edits a row the earlier one deleted.
C10_DeletedStaysDeleted ==
    /\ Called /\ last.ok /\ ~Current
    /\ \E i \in Edited \ Deleted : last.df[i + 1].id \notin Ids(last.pre.rows)

====
